---- MODULE Spec2Model ----
(***************************************************************************)
(* A model of apply_rules.py: the batch script that reassigns the          *)
(* "Imbalance-" split of the transactions of one month to the account a    *)
(* rule table names for their description.                                 *)
(*                                                                         *)
(* Strings are sequences of tokens: an account name is a sequence such as  *)
(* <<"Imbalance-", "USD">>, a path string is a sequence of name tokens and *)
(* ":" tokens.  Amounts and prices are GncNumeric pairs [num, denom]; the  *)
(* doubles the script computes with are taken as exact rationals.          *)
(* The calls into the gnucash bindings (Account.lookup_by_name,            *)
(* Account.GetSplitList, Split.SetAccount, GNCPriceDB.lookup_nearest_...,  *)
(* Session.__exit__) are modelled by the behaviour the bindings document.  *)
(***************************************************************************)
EXTENDS Integers, Sequences, FiniteSets, TLC

VARIABLES
    pc,          \* position of the script
    ledger,      \* the book: transaction id -> [date, desc, splits]
    ledger0,     \* the book as it was when the session was opened
    file,        \* the book as the gnucash file holds it
    rules,       \* rules[RULES_KEY]: sequence of [target, descs]
    year, month, \* args.year, args.month
    scanned,     \* the account paths of rules[ACCOUNTS_TO_SCAN_KEY] read so far
    account,     \* process(): account
    txns,        \* process(): txns
    ruleIdx,     \* process(): position in da_rules.items()
    dst_account, \* apply_rule(): dst_account
    matched,     \* apply_rule(): txns (the transactions of the rule's description)
    k,           \* apply_rule(): position in matched
    failure,     \* the exception that left the session block, or "none"
    saves,       \* number of Session.save() calls
    closed,      \* Session.end() was called
    begun,       \* transaction id -> number of BeginEdit calls
    committed,   \* transaction id -> number of CommitEdit calls
    calls,       \* the transactions set_dst_account was called on, in order
    last,        \* the latest set_dst_account call: arguments, book before, outcome
    missing,     \* a path read so far names no existing chain of accounts
    lookupPath,  \* account_lookup_by_path(): path_str
    lookupResult \* account_lookup_by_path(): what the call did

vars == <<pc, ledger, ledger0, file, rules, year, month, scanned, account, txns,
          ruleIdx, dst_account, matched, k, failure, saves, closed, begun,
          committed, calls, last, missing, lookupPath, lookupResult>>

----------------------------------------------------------------------------
(* Bounds *)

\* longest path string (in tokens) given to account_lookup_by_path on its own
MaxPathLen == 5
\* longest "Accounts to scan" list
MaxScan == 2

----------------------------------------------------------------------------
(* The book: accounts *)

None == -1
Root == 0

SEP == ":"

\* The account tree of the book.  "Misc" names an account in two branches.
Accounts ==
    ( 1 :> [name |-> <<"Assets">>,            parent |-> 0, commodity |-> "USD"] ) @@
    ( 2 :> [name |-> <<"Bank">>,              parent |-> 1, commodity |-> "USD"] ) @@
    ( 3 :> [name |-> <<"Misc">>,              parent |-> 1, commodity |-> "PLN"] ) @@
    ( 4 :> [name |-> <<"Expenses">>,          parent |-> 0, commodity |-> "USD"] ) @@
    ( 5 :> [name |-> <<"Food">>,              parent |-> 4, commodity |-> "USD"] ) @@
    ( 6 :> [name |-> <<"Misc">>,              parent |-> 5, commodity |-> "EUR"] ) @@
    ( 7 :> [name |-> <<"Imbalance-", "USD">>, parent |-> 0, commodity |-> "USD"] )

AccountIds == DOMAIN Accounts

GetName(a) == Accounts[a].name

GetCommodity(a) == Accounts[a].commodity

\* the children of an account, in the order the book keeps them
Children(a) == { c \in AccountIds : Accounts[c].parent = a }

Min(S) == CHOOSE x \in S : \A y \in S : x <= y

\* Account.lookup_by_name (gnc_account_lookup_by_name): the immediate children
\* are searched first, then each child's descendants in turn; None when no
\* descendant has the name.
RECURSIVE lookup_by_name(_, _)
lookup_by_name(a, name) ==
    LET cs  == Children(a)
        hit == { c \in cs : GetName(c) = name }
    IN  IF hit # {} THEN Min(hit)
        ELSE LET deep == { c \in cs : lookup_by_name(c, name) # None }
             IN  IF deep = {} THEN None ELSE lookup_by_name(Min(deep), name)

----------------------------------------------------------------------------
(* account_lookup_by_path *)

\* str.split(":"): the pieces between the separators, empty pieces included
RECURSIVE split(_)
split(s) ==
    LET seps == { i \in 1..Len(s) : s[i] = SEP }
    IN  IF seps = {} THEN << s >>
        ELSE << SubSeq(s, 1, Min(seps) - 1) >>
             \o split(SubSeq(s, Min(seps) + 1, Len(s)))

\* A slip: every component is looked up below the account the search began
\* at instead of below the child found last.
RECURSIVE lookup_from_top(_, _, _)
lookup_from_top(acc, path, n) ==
    LET name  == Head(path)
        child == lookup_by_name(acc, name)
    IN  IF child = None /\ Len(Tail(path)) # 0
        THEN [account |-> None, lookups |-> n + 1, raised |-> TRUE]
        ELSE IF Len(Tail(path)) = 0
        THEN [account |-> child, lookups |-> n + 1, raised |-> FALSE]
        ELSE lookup_from_top(acc, Tail(path), n + 1)

\* The inner function; n counts the lookup_by_name calls made so far.  A
\* lookup that found nothing returns None, and the next call on None raises
\* AttributeError.
RECURSIVE _account_lookup_by_path(_, _, _)
_account_lookup_by_path(acc, path, n) ==
    IF acc = None
    THEN [account |-> None, lookups |-> n, raised |-> TRUE]
    ELSE LET name  == Head(path)
             child == lookup_by_name(acc, name)
         IN  IF Len(Tail(path)) = 0
             THEN [account |-> child, lookups |-> n + 1, raised |-> FALSE]
             ELSE _account_lookup_by_path(child, Tail(path), n + 1)

account_lookup_by_path(acc, path_str) ==
    _account_lookup_by_path(acc, split(path_str), 0)

----------------------------------------------------------------------------
(* Dates and the month filter *)

\* datetime(year, month, day) plus the second of the day
datetime(y, m, d) == [year |-> y, month |-> m, day |-> d, second |-> 0]

\* datetime.__lt__: field by field
Before(a, b) ==
    \/ a.year < b.year
    \/ a.year = b.year /\ a.month < b.month
    \/ a.year = b.year /\ a.month = b.month /\ a.day < b.day
    \/ a.year = b.year /\ a.month = b.month /\ a.day = b.day
       /\ a.second < b.second

\* A slip: December's following month is taken in the same year.
filter_out_same_year(dt, y, m) ==
    LET dt1 == datetime(y, m, 1)
        dt2 == IF m = 12 THEN datetime(y, 1, 1) ELSE datetime(y, m + 1, 1)
    IN  Before(dt, dt1) \/ ~Before(dt, dt2)

filter_out(dt, y, m) ==
    LET dt1 == datetime(y, m, 1)
        dt2 == IF m = 12 THEN datetime(y + 1, 1, 1) ELSE datetime(y, m + 1, 1)
    IN  Before(dt, dt1) \/ ~Before(dt, dt2)

\* time64 of a date (seconds since 1970, every month taken as 31 days), for
\* ordering and distances
Timestamp(dt) ==
    (((dt.year - 1970) * 12 + dt.month) * 31 + dt.day) * 86400 + dt.second

----------------------------------------------------------------------------
(* The book: transactions and splits *)

\* a split is named by its transaction and its place in the transaction
SplitRefs(l) ==
    UNION { { << t, i >> : i \in 1..Len(l[t].splits) } : t \in DOMAIN l }

\* xaccSplitOrder: by the date of the transaction, then as entered
SplitOrder(l, r, q) ==
    \/ Timestamp(l[r[1]].date) < Timestamp(l[q[1]].date)
    \/ Timestamp(l[r[1]].date) = Timestamp(l[q[1]].date) /\ r[1] < q[1]
    \/ r[1] = q[1] /\ r[2] <= q[2]

RECURSIVE Sorted(_, _)
Sorted(l, S) ==
    IF S = {} THEN << >>
    ELSE LET first == CHOOSE r \in S : \A q \in S : SplitOrder(l, r, q)
         IN  << first >> \o Sorted(l, S \ {first})

\* Account.GetSplitList(): the account's splits, in the book's order
GetSplitList(l, a) ==
    Sorted(l, { r \in SplitRefs(l) : l[r[1]].splits[r[2]].account = a })

\* one entry (split.parent) for every split of the account inside the month
get_transactions(l, a, y, m) ==
    LET sl   == GetSplitList(l, a)
        keep == SelectSeq(sl, LAMBDA r : ~filter_out(l[r[1]].date, y, m))
    IN  [ i \in 1..Len(keep) |-> keep[i][1] ]

startswith(name, prefix) == Len(name) >= 1 /\ name[1] = prefix

is_split_imbalanced(sp) == startswith(GetName(sp.account), "Imbalance-")

\* A slip: the filter that keeps imbalanced transactions lets everything by.
is_imbalanced_any(txn) == TRUE

\* A slip: a transaction counts only when all of its splits are imbalanced.
is_imbalanced_all(txn) ==
    \A i \in 1..Len(txn.splits) : is_split_imbalanced(txn.splits[i])

is_imbalanced(txn) ==
    LET imbalanced == SelectSeq(txn.splits, is_split_imbalanced)
    IN  Len(imbalanced) # 0

----------------------------------------------------------------------------
(* Prices and conversion *)

Num(n, d) == [num |-> n, denom |-> d]

Date(y, m, d, s) == [year |-> y, month |-> m, day |-> d, second |-> s]

\* The price database of the book: the value of one unit of commodity in
\* currency at a time.
PriceDb ==
    { [commodity |-> "USD", currency |-> "EUR",
       time |-> Date(2025, 11, 20, 0), value |-> Num(9, 10)],
      [commodity |-> "USD", currency |-> "EUR",
       time |-> Date(2025, 12, 1, 0),  value |-> Num(917, 1000)],
      [commodity |-> "USD", currency |-> "EUR",
       time |-> Date(2025, 12, 31, 0), value |-> Num(17, 20)],
      [commodity |-> "EUR", currency |-> "USD",
       time |-> Date(2025, 12, 5, 0),  value |-> Num(109, 100)] }

NoPrice == [commodity |-> "", currency |-> "", time |-> Date(0, 0, 0, 0),
            value |-> Num(0, 1)]

Abs(x) == IF x < 0 THEN -x ELSE x

\* GNCPriceDB.lookup_nearest_in_time64(comm, curr, date): the price of comm in
\* curr whose time is nearest to date (the earlier of two equally near);
\* NoPrice stands for None.
lookup_nearest_in_time64(comm, curr, date) ==
    LET ps == { p \in PriceDb : p.commodity = comm /\ p.currency = curr }
        d(p) == Abs(Timestamp(p.time) - Timestamp(date))
    IN  IF ps = {} THEN NoPrice
        ELSE CHOOSE p \in ps :
                \A q \in ps : d(p) < d(q)
                              \/ (d(p) = d(q)
                                  /\ Timestamp(p.time) <= Timestamp(q.time))

\* A slip: the commodities are never found equal, so every amount is converted.
accounts_never_eq(src, dst) == FALSE

accounts_eq_commodities(src, dst) == GetCommodity(src) = GetCommodity(dst)

\* int(): towards zero
int(n, d) == IF n >= 0 THEN n \div d ELSE -((-n) \div d)

RECURSIVE GCD(_, _)
GCD(a, b) == IF b = 0 THEN a ELSE GCD(b, a % b)

\* GncNumeric(int(amount * exchange_rate * 1000), 1000); the factor 1000 is
\* cancelled against the amount's denominator before multiplying
converted(amount, rate) ==
    LET g == GCD(1000, amount.denom)
    IN  Num(int(amount.num * rate.num * (1000 \div g),
                (amount.denom \div g) * rate.denom), 1000)

\* The price asked for and what came back; price.get_value() on None raises
\* AttributeError.
get_exchange_rate(src, dst, date) ==
    LET comm  == GetCommodity(src)
        curr  == GetCommodity(dst)
        price == lookup_nearest_in_time64(comm, curr, date)
    IN  [query  |-> [comm |-> comm, curr |-> curr, date |-> date],
         price  |-> price,
         raised |-> price = NoPrice]

----------------------------------------------------------------------------
(* set_dst_account *)

\* what one call of set_dst_account did
Outcome(l, fail, began, commit, setAcc, setAmt, qs, price) ==
    [ledger |-> l, failure |-> fail, began |-> began, committed |-> commit,
     setAccount |-> setAcc, setAmount |-> setAmt, queries |-> qs,
     price |-> price]

\* the transaction edited between BeginEdit and CommitEdit; di is the split
\* that is reassigned, si the other one
edit(l, t, di, si, dst) ==
    LET txn         == l[t]
        src_account == txn.splits[si].account
        \* Split.SetAccount(None) is refused by the library and changes nothing
        l1 == IF dst = None THEN l
              ELSE [l EXCEPT ![t].splits[di].account = dst]
    IN  IF dst = None
        THEN \* None.GetCommodity()
             Outcome(l1, "AttributeError", TRUE, FALSE, << di >>, << >>,
                     << >>, NoPrice)
        ELSE IF accounts_eq_commodities(src_account, dst)
        THEN Outcome(l1, "none", TRUE, TRUE, << di >>, << >>, << >>, NoPrice)
        ELSE LET x == get_exchange_rate(src_account, dst, txn.date)
             IN  IF x.raised
                 THEN Outcome(l1, "AttributeError", TRUE, FALSE, << di >>,
                              << >>, << x.query >>, NoPrice)
                 ELSE Outcome(
                        [l1 EXCEPT ![t].splits[di].amount =
                            converted(txn.splits[di].amount, x.price.value)],
                        "none", TRUE, TRUE, << di >>, << di >>,
                        << x.query >>, x.price)

\* A slip: the number of splits is not asserted.
set_dst_account_unchecked(l, t, dst) ==
    LET splits == l[t].splits
    IN  IF Len(splits) < 2
        THEN Outcome(l, "IndexError", FALSE, FALSE, << >>, << >>, << >>,
                     NoPrice)
        ELSE IF is_split_imbalanced(splits[1])
        THEN edit(l, t, 1, 2, dst)
        ELSE edit(l, t, 2, 1, dst)

\* A slip: source and destination split are taken the wrong way round.
set_dst_account_reversed(l, t, dst) ==
    LET splits == l[t].splits
    IN  IF Len(splits) # 2
        THEN Outcome(l, "AssertionError", FALSE, FALSE, << >>, << >>, << >>,
                     NoPrice)
        ELSE IF is_split_imbalanced(splits[1])
        THEN edit(l, t, 2, 1, dst)
        ELSE edit(l, t, 1, 2, dst)

set_dst_account(l, t, dst) ==
    LET splits == l[t].splits
    IN  IF Len(splits) # 2
        THEN Outcome(l, "AssertionError", FALSE, FALSE, << >>, << >>, << >>,
                     NoPrice)
        ELSE IF is_split_imbalanced(splits[1])
        THEN edit(l, t, 1, 2, dst)
        ELSE edit(l, t, 2, 1, dst)

----------------------------------------------------------------------------
(* The rules *)

\* dict.__setitem__ on an insertion-ordered dict
setitem(d, key, value) ==
    IF \E i \in 1..Len(d) : d[i].key = key
    THEN [ i \in 1..Len(d) |->
             IF d[i].key = key THEN [key |-> key, value |-> value] ELSE d[i] ]
    ELSE Append(d, [key |-> key, value |-> value])

RECURSIVE add_keys(_, _, _)
add_keys(d, target, descs) ==
    IF descs = << >> THEN d
    ELSE add_keys(setitem(d, Head(descs), target), target, Tail(descs))

RECURSIVE add_targets(_, _)
add_targets(d, config) ==
    IF config = << >> THEN d
    ELSE add_targets(add_keys(d, Head(config).target, Head(config).descs),
                     Tail(config))

\* {key: target for target, descs in config.items() for key in descs}
rules2darules(config) == add_targets(<< >>, config)

\* apply_rule()'s comprehension: the transactions of the description
with_description(l, ts, description) ==
    SelectSeq(ts, LAMBDA t : l[t].desc = description)

----------------------------------------------------------------------------
(* Inputs *)

TxnIds == { 1, 2 }

Split(a, n) == [account |-> a, amount |-> Num(n, 100)]

\* the transactions a book may hold: one side imbalanced (either way round),
\* both sides imbalanced, fully categorised, three splits, a single split
SplitLists ==
    { << Split(2, 1050), Split(7, -1050) >>,
      << Split(7, 333), Split(2, -333) >>,
      << Split(7, 500), Split(7, -500) >>,
      << Split(2, -2000), Split(5, 2000) >>,
      << Split(2, 1000), Split(7, -400), Split(5, -600) >>,
      << Split(7, 100) >> }

Descriptions == { "rent", "food" }

\* inside December 2025, and the first instant of January 2026
TxnDates == { Date(2025, 12, 5, 43200), Date(2026, 1, 1, 0) }

Transactions ==
    [date : TxnDates, desc : Descriptions, splits : SplitLists]

P_Bank == << "Assets", SEP, "Bank" >>
P_Imbalance == << "Imbalance-", "USD" >>
P_Food == << "Expenses", SEP, "Food" >>
P_FoodMisc == << "Expenses", SEP, "Food", SEP, "Misc" >>
P_AssetsMisc == << "Assets", SEP, "Misc" >>
P_NoLeaf == << "Expenses", SEP, "Nope" >>
P_NoStem == << "Nope", SEP, "Food" >>
P_Nope == << "Nope" >>

\* the paths "Accounts to scan" may list
ScanPaths == { P_Bank, P_Imbalance, P_Food, P_Nope }

Rule(target, descs) == [target |-> target, descs |-> descs]

\* the "Rules" mappings: "rent" under one destination, "food" under Food or
\* nowhere; and one mapping that lists "rent" under two destinations
RuleConfigs ==
    { << Rule(t, << "rent" >>) >> :
        t \in { P_Food, P_FoodMisc, P_AssetsMisc, P_NoLeaf, P_NoStem,
                P_Imbalance } }
    \cup
    { << Rule(P_Food, << "food" >>), Rule(t, << "rent" >>) >> :
        t \in { P_FoodMisc, P_AssetsMisc, P_NoLeaf, P_Imbalance } }
    \cup
    { << Rule(P_Food, << "rent", "food" >>) >>,
      << Rule(P_Food, << "rent" >>), Rule(P_FoodMisc, << "rent" >>) >> }

\* the paths that name a chain of accounts from the root, each the child of
\* the one before
RECURSIVE Descend(_, _)
Descend(a, names) ==
    IF names = << >> THEN a
    ELSE LET cs == { c \in Children(a) : GetName(c) = Head(names) }
         IN  IF cs = {} THEN None ELSE Descend(Min(cs), Tail(names))

IsChain(path_str) == Descend(Root, split(path_str)) # None

NoCall == [txn |-> 0]

NoResult == [account |-> None, lookups |-> 0, raised |-> FALSE]

----------------------------------------------------------------------------
(* main() and process() *)

Init ==
    /\ pc = "scan"
    /\ ledger \in [TxnIds -> Transactions]
    /\ ledger0 = ledger
    /\ file = ledger
    /\ rules \in RuleConfigs
    /\ year = 2025
    /\ month = 12
    /\ scanned = << >>
    /\ account = None
    /\ txns = << >>
    /\ ruleIdx = 0
    /\ dst_account = None
    /\ matched = << >>
    /\ k = 0
    /\ failure = "none"
    /\ saves = 0
    /\ closed = FALSE
    /\ begun = [t \in TxnIds |-> 0]
    /\ committed = [t \in TxnIds |-> 0]
    /\ calls = << >>
    /\ last = NoCall
    /\ missing = FALSE
    /\ lookupPath = << >>
    /\ lookupResult = NoResult

\* an exception leaves process() and the session block
Raise(kind) ==
    /\ failure' = kind
    /\ pc' = "exit"

\* line 151-155: the next account of "Accounts to scan" and its imbalanced
\* transactions of the month
NextAccount ==
    /\ pc = "scan"
    /\ Len(scanned) < MaxScan
    /\ \E account_path \in ScanPaths :
         LET r == account_lookup_by_path(Root, account_path)
         IN  /\ scanned' = Append(scanned, account_path)
             /\ missing' = (missing \/ ~IsChain(account_path))
             /\ account' = r.account
             /\ IF r.raised \/ r.account = None
                THEN /\ Raise("AttributeError")
                     /\ UNCHANGED << txns, ruleIdx >>
                ELSE /\ txns' = SelectSeq(
                                  get_transactions(ledger, r.account, year, month),
                                  LAMBDA t : is_imbalanced(ledger[t]))
                     /\ ruleIdx' = 1
                     /\ pc' = "rule"
                     /\ UNCHANGED failure
    /\ UNCHANGED << ledger, ledger0, file, rules, year, month, dst_account, matched,
                    k, saves, closed, begun, committed, calls, last,
                    lookupPath, lookupResult >>

\* line 151: "Accounts to scan" is exhausted
EndScan ==
    /\ pc = "scan"
    /\ pc' = "save"
    /\ UNCHANGED << ledger, ledger0, file, rules, year, month, scanned, account,
                    txns, ruleIdx, dst_account, matched, k, failure, saves,
                    closed, begun, committed, calls, last, missing,
                    lookupPath, lookupResult >>

\* line 156-157, 139: the next rule, its destination account and the
\* transactions of its description
NextRule ==
    /\ pc = "rule"
    /\ ruleIdx <= Len(rules2darules(rules))
    /\ LET item == rules2darules(rules)[ruleIdx]
           r    == account_lookup_by_path(Root, item.value)
       IN  /\ missing' = (missing \/ ~IsChain(item.value))
           /\ IF r.raised
              THEN /\ Raise("AttributeError")
                   /\ UNCHANGED << dst_account, matched, k >>
              ELSE /\ dst_account' = r.account
                   /\ matched' = with_description(ledger, txns, item.key)
                   /\ k' = 1
                   /\ pc' = "apply"
                   /\ UNCHANGED failure
    /\ UNCHANGED << ledger, ledger0, file, rules, year, month, scanned, account,
                    txns, ruleIdx, saves, closed, begun, committed, calls,
                    last, lookupPath, lookupResult >>

\* line 156: the rules are exhausted
EndRules ==
    /\ pc = "rule"
    /\ ruleIdx > Len(rules2darules(rules))
    /\ pc' = "scan"
    /\ UNCHANGED << ledger, ledger0, file, rules, year, month, scanned, account,
                    txns, ruleIdx, dst_account, matched, k, failure, saves,
                    closed, begun, committed, calls, last, missing,
                    lookupPath, lookupResult >>

\* line 140-141: set_dst_account on the next transaction of the rule
SetDst ==
    /\ pc = "apply"
    /\ k <= Len(matched)
    /\ LET t   == matched[k]
           out == set_dst_account(ledger, t, dst_account)
       IN  /\ ledger' = out.ledger
           /\ begun' = [begun EXCEPT ![t] = @ + (IF out.began THEN 1 ELSE 0)]
           /\ committed' =
                [committed EXCEPT ![t] = @ + (IF out.committed THEN 1 ELSE 0)]
           /\ calls' = Append(calls, t)
           /\ last' = [txn |-> t, dst |-> dst_account, pre |-> ledger,
                       out |-> out,
                       at |-> [scanned |-> Len(scanned), rule |-> ruleIdx,
                               k |-> k]]
           /\ IF out.failure # "none"
              THEN Raise(out.failure) /\ UNCHANGED k
              ELSE k' = k + 1 /\ UNCHANGED << pc, failure >>
    /\ UNCHANGED << ledger0, file, rules, year, month, scanned, account, txns,
                    ruleIdx, dst_account, matched, saves, closed, missing,
                    lookupPath, lookupResult >>

\* line 140: the transactions of the rule are exhausted
EndApply ==
    /\ pc = "apply"
    /\ k > Len(matched)
    /\ ruleIdx' = ruleIdx + 1
    /\ pc' = "rule"
    /\ UNCHANGED << ledger, ledger0, file, rules, year, month, scanned, account,
                    txns, dst_account, matched, k, failure, saves, closed,
                    begun, committed, calls, last, missing, lookupPath,
                    lookupResult >>

\* line 173: session.save()
Save ==
    /\ pc = "save"
    /\ saves' = saves + 1
    /\ file' = ledger
    /\ pc' = "exit"
    /\ UNCHANGED << ledger, ledger0, rules, year, month, scanned, account,
                    txns, ruleIdx, dst_account, matched, k, failure, closed,
                    begun, committed, calls, last, missing, lookupPath,
                    lookupResult >>

\* A slip: the session saves on every exit, an exception included.
ExitSaving ==
    /\ pc = "exit"
    /\ saves' = saves + 1
    /\ closed' = TRUE
    /\ file' = ledger
    /\ pc' = "end"
    /\ UNCHANGED << ledger, ledger0, rules, year, month, scanned, account,
                    txns, ruleIdx, dst_account, matched, k, failure, begun,
                    committed, calls, last, missing, lookupPath,
                    lookupResult >>

\* line 168: leaving the with block.  Session.__exit__ saves unless an
\* exception is passing through, and ends the session either way.
Exit ==
    /\ pc = "exit"
    /\ saves' = IF failure = "none" THEN saves + 1 ELSE saves
    /\ closed' = TRUE
    /\ file' = IF failure = "none" THEN ledger ELSE file
    /\ pc' = "end"
    /\ UNCHANGED << ledger, ledger0, rules, year, month, scanned, account,
                    txns, ruleIdx, dst_account, matched, k, failure, begun,
                    committed, calls, last, missing, lookupPath,
                    lookupResult >>

Next ==
    \/ NextAccount
    \/ EndScan
    \/ NextRule
    \/ EndRules
    \/ SetDst
    \/ EndApply
    \/ Save
    \/ Exit

Spec == Init /\ [][Next]_vars

----------------------------------------------------------------------------
(* account_lookup_by_path on its own: every path string up to MaxPathLen *)

PathTokens == { "Assets", "Expenses", "Food", "Misc", "Nope", SEP }

PathStrings == UNION { [1..n -> PathTokens] : n \in 0..MaxPathLen }

Idle ==
    /\ ledger0 = ledger
    /\ file = ledger
    /\ rules = << >>
    /\ scanned = << >>
    /\ ruleIdx = 0
    /\ dst_account = None
    /\ matched = << >>
    /\ k = 0
    /\ failure = "none"
    /\ saves = 0
    /\ closed = FALSE
    /\ begun = [t \in TxnIds |-> 0]
    /\ committed = [t \in TxnIds |-> 0]
    /\ calls = << >>
    /\ last = NoCall
    /\ missing = FALSE

InitLookup ==
    /\ pc = "lookup"
    /\ lookupPath \in PathStrings
    /\ lookupResult = NoResult
    /\ ledger = << >>
    /\ year = 2025
    /\ month = 12
    /\ account = None
    /\ txns = << >>
    /\ Idle

\* line 153, 157: account_lookup_by_path(root, path_str)
Lookup ==
    /\ pc = "lookup"
    /\ lookupResult' = account_lookup_by_path(Root, lookupPath)
    /\ pc' = "looked"
    /\ UNCHANGED << ledger, ledger0, file, rules, year, month, scanned, account,
                    txns, ruleIdx, dst_account, matched, k, failure, saves,
                    closed, begun, committed, calls, last, missing,
                    lookupPath >>

SpecLookup == InitLookup /\ [][Lookup]_vars

----------------------------------------------------------------------------
(* get_transactions on its own: every month of two years, dates around it *)

FilterYears == { 2025, 2026 }

\* first and last instants of the first and of a late day of every month
\* from the year before to the year after
FilterDates ==
    { Date(y, m, d, s) : y \in 2024..2027, m \in 1..12, d \in { 1, 28 },
                         s \in { 0, 86399 } }

InitFilter ==
    /\ pc = "filter"
    /\ year \in FilterYears
    /\ month \in 1..12
    /\ \E d1 \in FilterDates, d2 \in { Date(year, month, 1, 0),
                                       Date(year, month, 28, 86399) } :
         ledger = << [date |-> d1, desc |-> "rent",
                      splits |-> << Split(2, -2000), Split(5, 2000) >>],
                     [date |-> d2, desc |-> "food",
                      splits |-> << Split(2, 1050), Split(7, -1050) >>] >>
    /\ account = 2
    /\ txns = << >>
    /\ lookupPath = << >>
    /\ lookupResult = NoResult
    /\ Idle

\* line 154: get_transactions(account, year, month)
GetTransactions ==
    /\ pc = "filter"
    /\ txns' = get_transactions(ledger, account, year, month)
    /\ pc' = "filtered"
    /\ UNCHANGED << ledger, ledger0, file, rules, year, month, scanned, account,
                    ruleIdx, dst_account, matched, k, failure, saves, closed,
                    begun, committed, calls, last, missing, lookupPath,
                    lookupResult >>

SpecFilter == InitFilter /\ [][GetTransactions]_vars

----------------------------------------------------------------------------
(* Claims *)

Range(s) == { s[i] : i \in 1..Len(s) }

InMonth(dt) == dt.year = year /\ dt.month = month

\* C3: get_transactions keeps a transaction of the account exactly when its
\* date lies in the requested calendar month: from the first instant of the
\* month (kept) up to, not including, the first instant of the following
\* month, which for December is January of the next year.
C3_MonthFilter ==
    pc = "filtered" =>
        /\ \A t \in DOMAIN ledger :
             (t \in Range(txns)) <=> InMonth(ledger[t].date)
        /\ \A t \in DOMAIN ledger :
             /\ ledger[t].date = Date(year, month, 1, 0) => t \in Range(txns)
             /\ ledger[t].date = Date(year + 1, 1, 1, 0) => t \notin Range(txns)
             /\ (month < 12 /\ ledger[t].date = Date(year, month + 1, 1, 0))
                   => t \notin Range(txns)

\* a December is filtered with a transaction on the first instant of the
\* next January, and the first instant of the month itself is present
C3_Witness ==
    /\ pc = "filtered"
    /\ month = 12
    /\ ledger[1].date = Date(year + 1, 1, 1, 0)
    /\ ledger[2].date = Date(year, 12, 1, 0)
    /\ txns = << 2 >>

\* C5: for a path that names a chain of accounts below the root, each the
\* child of the one before, account_lookup_by_path returns the last account
\* of that chain after one name lookup per component, and so never an
\* account of another branch.
C5_PathLookup ==
    (pc = "looked" /\ IsChain(lookupPath)) =>
        /\ ~lookupResult.raised
        /\ lookupResult.account = Descend(Root, split(lookupPath))
        /\ lookupResult.lookups = Len(split(lookupPath))

\* Expenses:Food:Misc is resolved, although Assets:Misc has the same name
C5_Witness ==
    /\ pc = "looked"
    /\ lookupPath = P_FoodMisc
    /\ lookupResult.account = 6
    /\ lookupResult.lookups = 3

----------------------------------------------------------------------------
(* Claims about a run of main() *)

\* process() returned: the script is at or past session.save() unharmed
Completed == pc \in { "save", "exit", "end" } /\ failure = "none"

\* the destinations that list a description
TargetsOf(desc) ==
    { rules[i].target : i \in { j \in 1..Len(rules) :
                                  desc \in Range(rules[j].descs) } }

UniqueTriggers == \A desc \in Descriptions : Cardinality(TargetsOf(desc)) <= 1

Resolve(path_str) == account_lookup_by_path(Root, path_str).account

HasSplitIn(txn, a) == \E i \in 1..Len(txn.splits) : txn.splits[i].account = a

ImbalancedSplits(txn) ==
    { i \in 1..Len(txn.splits) : is_split_imbalanced(txn.splits[i]) }

\* a call of set_dst_account has been made; its transaction before the call
Called == last # NoCall

Pre == last.pre[last.txn]

Post == last.out.ledger[last.txn]

\* the split set_dst_account is to reassign, and the other one
DstIdx == IF 1 \in ImbalancedSplits(Pre) THEN 1 ELSE 2

SrcIdx == 3 - DstIdx

ChangedSplits == { i \in 1..Len(Pre.splits) : Post.splits[i] # Pre.splits[i] }

TimesCalled(t) == Cardinality({ i \in 1..Len(calls) : calls[i] = t })

\* C1: once process() has completed without failure, every transaction that
\* had a split in a scanned account, is dated inside the month, had exactly
\* two splits with exactly one of them in an "Imbalance-" account, and whose
\* description is a trigger of the rules (triggers unique across
\* destinations) has that split in the account its trigger's destination
\* path resolves to.
C1_Reassigned ==
    (Completed /\ UniqueTriggers) =>
        \A p \in Range(scanned), t \in TxnIds :
            LET txn0 == ledger0[t]
            IN  ( /\ HasSplitIn(txn0, Resolve(p))
                  /\ InMonth(txn0.date)
                  /\ Len(txn0.splits) = 2
                  /\ Cardinality(ImbalancedSplits(txn0)) = 1
                  /\ TargetsOf(txn0.desc) # {} )
                => \A i \in ImbalancedSplits(txn0), target \in TargetsOf(txn0.desc) :
                       ledger[t].splits[i].account = Resolve(target)

\* a run that scanned Assets:Bank ended with the Imbalance-USD split of
\* transaction 1 in Expenses:Food:Misc
C1_Witness ==
    /\ pc = "end"
    /\ failure = "none"
    /\ UniqueTriggers
    /\ P_Bank \in Range(scanned)
    /\ ledger0[1].splits = << Split(2, 1050), Split(7, -1050) >>
    /\ InMonth(ledger0[1].date)
    /\ TargetsOf(ledger0[1].desc) = { P_FoodMisc }
    /\ ledger[1].splits[2].account = 6

\* C2: set_dst_account is only ever called on a transaction that has, at
\* that moment, a split in an "Imbalance-" account; and a transaction that
\* had no such split, or is dated outside the month, or whose description
\* is no trigger, keeps the account and amount of all its splits.
C2_OnlyImbalanced ==
    /\ Called => ImbalancedSplits(Pre) # {}
    /\ \A t \in TxnIds :
         ( \/ ImbalancedSplits(ledger0[t]) = {}
           \/ ~InMonth(ledger0[t].date)
           \/ TargetsOf(ledger0[t].desc) = {} )
         => ledger[t].splits = ledger0[t].splits

\* a run reclassified transaction 2 and left alone transaction 1, which is in
\* the scanned account, inside the month and of the rule's description, but
\* has no imbalanced split
C2_Witness ==
    /\ pc = "end"
    /\ failure = "none"
    /\ ledger0[1].splits = << Split(2, -2000), Split(5, 2000) >>
    /\ InMonth(ledger0[1].date)
    /\ ledger0[1].desc = ledger0[2].desc
    /\ TargetsOf(ledger0[1].desc) # {}
    /\ P_Bank \in Range(scanned)
    /\ calls = << 2 >>
    /\ ledger[2] # ledger0[2]
    /\ ledger[1] = ledger0[1]

\* the prices of the database from one commodity to another
Prices(comm, curr) ==
    { p \in PriceDb : p.commodity = comm /\ p.currency = curr }

\* q thousandths is n/d cut towards zero to a whole number of thousandths
CutToThousandths(q, n, d) ==
    /\ Abs(q) * d <= Abs(n) * 1000
    /\ Abs(n) * 1000 - Abs(q) * d < d
    /\ (q > 0 => n > 0) /\ (q < 0 => n < 0)

C7_Assertion ==
    /\ (Called /\ Len(Pre.splits) # 2) =>
          /\ failure = "AssertionError"
          /\ pc \in { "exit", "end" }
          /\ ~last.out.began
          /\ last.out.setAccount = << >>
          /\ last.out.setAmount = << >>
          /\ last.out.ledger = last.pre
    /\ failure = "AssertionError" =>
          /\ Called /\ Len(Pre.splits) # 2
          /\ ledger = last.pre
          /\ Len(scanned) = last.at.scanned
          /\ ruleIdx = last.at.rule
          /\ k = last.at.k
          /\ \A t \in TxnIds : begun[t] = committed[t]
          /\ saves = 0
          /\ file = ledger0

\* the first of two transactions of the rule had three splits: the run ended
\* with the second one never reached
C7_Witness ==
    /\ pc = "end"
    /\ failure = "AssertionError"
    /\ Len(Pre.splits) = 3
    /\ Len(matched) = 2
    /\ k = 1
    /\ calls = << matched[1] >>
    /\ Len(ledger[matched[2]].splits) = 2

\* C8 as stated: a run that read a path, of "Accounts to scan" or of "Rules",
\* naming no existing account ends in a failure: it never completes normally.
C8_MissingAlwaysFails == (pc = "end" /\ missing) => failure # "none"

\* C9 as stated: with unique triggers, no transaction has set_dst_account
\* applied to it more than once in a run.
C9_AtMostOnce == UniqueTriggers => \A t \in TxnIds : TimesCalled(t) <= 1

\* C10 as stated: a call of set_dst_account on a two-split transaction with
\* an imbalanced split changes exactly one split.
C10_ChangesExactlyOne ==
    (Called /\ Len(Pre.splits) = 2 /\ ImbalancedSplits(Pre) # {}) =>
        Cardinality(ChangedSplits) = 1

\* C10 amended: such a call writes to exactly one split, the first if it is
\* in an "Imbalance-" account and the second otherwise, and that split was
\* in an "Imbalance-" account; no other split changes, and the written one
\* changes when the destination is an account other than the one it is in
\* (it does not when the destination is None, or is the account it is in
\* and no amount is converted); a call that returns leaves the split in the
\* destination.  The
\* other split, the date, the description and every other transaction are
\* as before, and a BeginEdit is followed by one CommitEdit unless the call
\* fails in between.
C10_Frame ==
    /\ (Called /\ Len(Pre.splits) = 2 /\ ImbalancedSplits(Pre) # {}) =>
          /\ last.out.setAccount = << DstIdx >>
          /\ Range(last.out.setAmount) \subseteq { DstIdx }
          /\ is_split_imbalanced(Pre.splits[DstIdx])
          /\ ChangedSplits \subseteq { DstIdx }
          /\ (last.dst = None
               \/ (last.dst = Pre.splits[DstIdx].account
                   /\ last.out.setAmount = << >>))
                => ChangedSplits = {}
          /\ (last.dst # None /\ last.dst # Pre.splits[DstIdx].account)
                => ChangedSplits = { DstIdx }
          /\ last.out.failure = "none" =>
                Post.splits[DstIdx].account = last.dst
          /\ Len(Post.splits) = 2
          /\ Post.splits[SrcIdx] = Pre.splits[SrcIdx]
          /\ Post.date = Pre.date
          /\ Post.desc = Pre.desc
          /\ \A u \in TxnIds \ { last.txn } : last.out.ledger[u] = last.pre[u]
          /\ last.out.began
          /\ last.out.committed <=> (last.out.failure = "none")
    /\ \A t \in TxnIds :
          /\ committed[t] <= begun[t]
          /\ begun[t] <= committed[t] + 1
          /\ failure = "none" => begun[t] = committed[t]

\* the second split of transaction 2, in Imbalance-USD, was moved and
\* converted; its first split and transaction 1 stayed
C10_Witness ==
    /\ Called
    /\ last.txn = 2
    /\ last.out.failure = "none"
    /\ Pre.splits = << Split(2, 1050), Split(7, -1050) >>
    /\ Post.splits = << Split(2, 1050),
                        [account |-> 6, amount |-> Num(-9628, 1000)] >>
    /\ last.out.ledger[1] = last.pre[1]
    /\ begun[2] = 1 /\ committed[2] = 1

====
